---- MODULE Spec2Model ----
(***************************************************************************)
(* Model of the Book Admin screen, frontend/src/Pages/BooksAdmin.tsx.      *)
(*                                                                         *)
(* The component's React state (books, isModalOpen, isLoading, error,      *)
(* editingBook, formData, failedImages) is the state of the machine.  Each *)
(* event handler is one action; an async handler is split at its awaits:   *)
(* the part up to the fetch, and one action per continuation, taken when   *)
(* the response of the awaited request is delivered.  Requests in flight   *)
(* are the records of net; the backend that answers them is modelled from  *)
(* the REST surface the specification describes.                           *)
(***************************************************************************)
EXTENDS Naturals, Sequences, FiniteSets

VARIABLES
  books,        \* useState<Book[]>            (line 42)
  isModalOpen,  \* useState(false)             (line 43)
  isLoading,    \* useState(false)             (line 44)
  error,        \* useState<string | null>     (line 45)
  editingBook,  \* useState<Book | null>       (line 46)
  formData,     \* useState<BookFormData>      (line 47)
  failedImages, \* useState<Set<string>>       (line 54)
  mounted,      \* whether the mount effect (line 67) has run
  net,          \* requests in flight, each with the frame of the handler awaiting it
  nreq,         \* number of requests issued so far (the next request has id nreq + 1)
  server,       \* the backend's collection, in the order GET returns it
  nextId,       \* the identifier the backend gives the next created book
  editSession   \* history: the book b of the last handleEdit(b), while only field
                \* edits (and responses) have followed it

vars == <<books, isModalOpen, isLoading, error, editingBook, formData,
          failedImages, mounted, net, nreq, server, nextId, editSession>>

screen == <<books, isModalOpen, isLoading, error, editingBook, formData, failedImages>>

backend == <<server, nextId>>

(***************************************************************************)
(* Bounds.                                                                 *)
(***************************************************************************)
\* Requests issued in one session.  A submit or a confirmed delete starts only
\* while its request and its reload both fit, so a started operation always ends.
MaxRequests == 5

(***************************************************************************)
(* Values.                                                                 *)
(***************************************************************************)
Null == "null"

NoFile == "none"

Files == {"f1"}

FieldNames == {"title", "author", "description"}

\* What the user types into a text field.
InputValues == {"x"}

\* editingBook = null
NoBook == [_id |-> 0, title |-> "", author |-> "", description |-> "", cover |-> ""]

\* The backend's books when the screen opens.  The second one carries the text the
\* user types, the first differs from it in its title.
Book1 == [_id |-> 1, title |-> "Dune", author |-> "x", description |-> "x",
          cover |-> "/covers/1.jpg"]

Book2 == [_id |-> 2, title |-> "x", author |-> "x", description |-> "x",
          cover |-> "/covers/2.jpg"]

InitialCollection == <<Book1, Book2>>

\* The covers the image host fails to serve.
BrokenCovers == {"/covers/1.jpg"}

EmptyForm == [title |-> "", author |-> "", description |-> "", cover |-> NoFile]

LoadError == "Failed to load books"

SaveError == "Failed to save book"

DeleteError == "Failed to delete book"

Range(s) == {s[i] : i \in DOMAIN s}

BookIds(s) == {s[i]._id : i \in DOMAIN s}

(***************************************************************************)
(* Requests.                                                               *)
(***************************************************************************)
\* A fetch() in flight.  origin and ctx are the frame of the async handler that
\* awaits it: which handler, and handleDelete's bookId.
Request(origin, method, id, body, ctx) ==
  [rid |-> nreq + 1, origin |-> origin, method |-> method, id |-> id, body |-> body,
   ctx |-> ctx, status |-> "sent", data |-> <<>>]

\* fetch(`${API_URL}/books`) of fetchBooks, called from `origin`.
fetchBooks(origin, ctx) == Request(origin, "GET", 0, EmptyForm, ctx)

Issue(r) == /\ net' = net \cup {r}
            /\ nreq' = nreq + 1

\* The continuation of an await: the answered request leaves, `r` is issued.
Continue(done, r) == /\ net' = (net \ {done}) \cup {r}
                     /\ nreq' = nreq + 1

Finish(done) == /\ net' = net \ {done}
                /\ nreq' = nreq

\* The await of the handler `origin` on one of its requests resolved: with
\* response.ok and a readable body ("ok"), or by throwing ("fail").
Answered(r, origin, methods, status) ==
  /\ r \in net
  /\ r.origin = origin
  /\ r.method \in methods
  /\ r.status = status

\* Operations whose request is out and whose reload is still to come.
AwaitingReload == {r \in net : r.method # "GET"}

\* A new operation has room for its request and its reload, beside the reloads of
\* the operations already started.
Budget == nreq + 2 + Cardinality(AwaitingReload) <= MaxRequests

(***************************************************************************)
(* Initial state: the first render.                                        *)
(***************************************************************************)
Init ==
  /\ books = <<>>
  /\ isModalOpen = FALSE
  /\ isLoading = FALSE
  /\ error = Null
  /\ editingBook = NoBook
  /\ formData = EmptyForm
  /\ failedImages = {}
  /\ mounted = FALSE
  /\ net = {}
  /\ nreq = 0
  /\ server = InitialCollection
  /\ nextId = 3
  /\ editSession = NoBook

(***************************************************************************)
(* useEffect(() => { fetchBooks(); }, [])                                  *)
(***************************************************************************)
Mount ==
  /\ ~mounted
  /\ mounted' = TRUE
  /\ Issue(fetchBooks("mount", 0))
  /\ UNCHANGED <<screen, backend, editSession>>

\* fetchBooks: setBooks(data)
MountLoaded(r) ==
  /\ Answered(r, "mount", {"GET"}, "ok")
  /\ books' = r.data
  /\ Finish(r)
  /\ UNCHANGED <<isModalOpen, isLoading, error, editingBook, formData, failedImages,
                 mounted, backend, editSession>>

\* fetchBooks: catch, setError('Failed to load books')
MountLoadFailed(r) ==
  /\ Answered(r, "mount", {"GET"}, "fail")
  /\ error' = LoadError
  /\ Finish(r)
  /\ UNCHANGED <<books, isModalOpen, isLoading, editingBook, formData, failedImages,
                 mounted, backend, editSession>>

(***************************************************************************)
(* The page and the dialog.  The Dialog is modal: while it is open the     *)
(* page behind it takes no clicks, and the form exists only inside it.     *)
(***************************************************************************)
PageEnabled == mounted /\ ~isModalOpen

FormEnabled == mounted /\ isModalOpen

\* <Button onClick={() => setIsModalOpen(true)}>  Add New Book
AddNewBookEffect ==
  /\ isModalOpen' = TRUE
  /\ UNCHANGED <<formData, editingBook, error>>

AddNewBook ==
  /\ PageEnabled
  /\ AddNewBookEffect
  /\ editSession' = NoBook
  /\ UNCHANGED <<books, isLoading, failedImages, mounted, net, nreq, backend>>

\* setFormData({ ...formData, [e.target.name]: e.target.value })
handleInputChange(name, value) ==
  /\ FormEnabled
  /\ formData' = [formData EXCEPT ![name] = value]
  /\ UNCHANGED <<books, isModalOpen, isLoading, error, editingBook, failedImages,
                 mounted, net, nreq, backend, editSession>>

\* if (e.target.files?.[0]) setFormData({ ...formData, cover: e.target.files[0] })
handleFileChange(file) ==
  /\ FormEnabled
  /\ formData' = IF file # NoFile THEN [formData EXCEPT !.cover = file] ELSE formData
  /\ UNCHANGED <<books, isModalOpen, isLoading, error, editingBook, failedImages,
                 mounted, net, nreq, backend, editSession>>

resetForm ==
  /\ formData' = EmptyForm
  /\ editingBook' = NoBook
  /\ error' = Null

\* Cancel: setIsModalOpen(false); resetForm()
Cancel ==
  /\ FormEnabled
  /\ isModalOpen' = FALSE
  /\ resetForm
  /\ editSession' = NoBook
  /\ UNCHANGED <<books, isLoading, failedImages, mounted, net, nreq, backend>>

\* <Dialog onOpenChange={setIsModalOpen}>: Escape, the close button, a click outside
DialogDismiss ==
  /\ FormEnabled
  /\ isModalOpen' = FALSE
  /\ editSession' = NoBook
  /\ UNCHANGED <<books, isLoading, error, editingBook, formData, failedImages,
                 mounted, net, nreq, backend>>

\* A handleEdit that spreads the old formData (and with it a pending cover) under
\* the book's fields.
handleEditEffect_KeepsCover(book) ==
  /\ editingBook' = book
  /\ formData' = [title |-> book.title, author |-> book.author,
                  description |-> book.description, cover |-> formData.cover]
  /\ isModalOpen' = TRUE

handleEditEffect(book) ==
  /\ editingBook' = book
  /\ formData' = [title |-> book.title, author |-> book.author,
                  description |-> book.description, cover |-> NoFile]
  /\ isModalOpen' = TRUE

handleEdit(book) ==
  /\ PageEnabled
  /\ book \in Range(books)
  /\ handleEditEffect(book)
  /\ editSession' = book
  /\ UNCHANGED <<books, isLoading, error, failedImages, mounted, net, nreq, backend>>

(***************************************************************************)
(* handleSubmit                                                            *)
(***************************************************************************)
\* The three text inputs are `required`: the browser submits no form with one empty.
RequiredFilled ==
  /\ formData.title # ""
  /\ formData.author # ""
  /\ formData.description # ""

\* The Save button without its disabled={isLoading}.
SubmitEnabled_Unguarded == FormEnabled /\ RequiredFilled

\* <Button type="submit" disabled={isLoading}>
SubmitEnabled == FormEnabled /\ ~isLoading /\ RequiredFilled

\* The fetch without the editingBook test: always a creation.
SubmitRequest_AlwaysPost == Request("submit", "POST", 0, formData, 0)

\* url and method of the fetch, with the multipart body built from formData
SubmitRequest ==
  IF editingBook # NoBook
    THEN Request("submit", "PUT", editingBook._id, formData, 0)
    ELSE Request("submit", "POST", 0, formData, 0)

\* up to the first await: setIsLoading(true); setError(null); fetch(url, ...)
handleSubmit ==
  /\ SubmitEnabled
  /\ Budget
  /\ isLoading' = TRUE
  /\ error' = Null
  /\ Issue(SubmitRequest)
  /\ editSession' = NoBook
  /\ UNCHANGED <<books, isModalOpen, editingBook, formData, failedImages, mounted,
                 backend>>

\* handleSubmit without its finally block.
SubmitFinally_Missing == UNCHANGED isLoading

\* finally { setIsLoading(false) }
SubmitFinally == isLoading' = FALSE

\* response.ok: await fetchBooks()
SubmitSaved(r) ==
  /\ Answered(r, "submit", {"POST", "PUT"}, "ok")
  /\ Continue(r, fetchBooks("submit", 0))
  /\ UNCHANGED <<screen, mounted, backend, editSession>>

\* A catch block that also closes the dialog and resets the form.
SubmitFailedEffect_Resets ==
  /\ error' = SaveError
  /\ isModalOpen' = FALSE
  /\ formData' = EmptyForm
  /\ editingBook' = NoBook

\* catch { setError('Failed to save book') }
SubmitFailedEffect ==
  /\ error' = SaveError
  /\ UNCHANGED <<isModalOpen, formData, editingBook>>

\* the fetch threw or !response.ok: catch, finally
SubmitFailed(r) ==
  /\ Answered(r, "submit", {"POST", "PUT"}, "fail")
  /\ SubmitFailedEffect
  /\ SubmitFinally
  /\ Finish(r)
  /\ UNCHANGED <<books, failedImages, mounted, backend, editSession>>

\* after await fetchBooks(): setIsModalOpen(false); resetForm(); and finally
SubmitAfterReload ==
  /\ isModalOpen' = FALSE
  /\ resetForm
  /\ SubmitFinally

\* A reload after a save that also starts the failed-cover set afresh.
SubmitReloaded_ForgetsFailed(r) ==
  /\ Answered(r, "submit", {"GET"}, "ok")
  /\ books' = r.data
  /\ SubmitAfterReload
  /\ failedImages' = {}
  /\ Finish(r)
  /\ UNCHANGED <<mounted, backend, editSession>>

\* fetchBooks set the list, then the rest of the try block ran
SubmitReloaded(r) ==
  /\ Answered(r, "submit", {"GET"}, "ok")
  /\ books' = r.data
  /\ SubmitAfterReload
  /\ Finish(r)
  /\ UNCHANGED <<failedImages, mounted, backend, editSession>>

\* fetchBooks caught its own failure (setError('Failed to load books')) and
\* returned normally, then the rest of the try block ran: resetForm clears the error
SubmitReloadFailed(r) ==
  /\ Answered(r, "submit", {"GET"}, "fail")
  /\ SubmitAfterReload
  /\ Finish(r)
  /\ UNCHANGED <<books, failedImages, mounted, backend, editSession>>

(***************************************************************************)
(* handleDelete                                                            *)
(***************************************************************************)
\* handleDelete without the confirmation test.
DeleteDeclinedEffect_NoReturn(bookId) ==
  /\ Issue(Request("delete", "DELETE", bookId, EmptyForm, bookId))
  /\ UNCHANGED screen

\* if (!window.confirm(...)) return
DeleteDeclinedEffect(bookId) ==
  UNCHANGED <<screen, net, nreq>>

handleDeleteDeclined(bookId) ==
  /\ PageEnabled
  /\ bookId \in BookIds(books)
  /\ DeleteDeclinedEffect(bookId)
  /\ editSession' = NoBook
  /\ UNCHANGED <<mounted, backend>>

\* fetch(`${API_URL}/books/${bookId}`, { method: 'DELETE' })
DeleteRequest(bookId) == Request("delete", "DELETE", bookId, EmptyForm, bookId)

handleDeleteConfirmed(bookId) ==
  /\ PageEnabled
  /\ bookId \in BookIds(books)
  /\ Budget
  /\ Issue(DeleteRequest(bookId))
  /\ editSession' = NoBook
  /\ UNCHANGED <<screen, mounted, backend>>

\* handleDelete without its await fetchBooks().
DeleteDoneEffect_NoReload(r) ==
  /\ Finish(r)
  /\ UNCHANGED screen

\* A handleDelete that takes the book off the list itself before it reloads.
DeleteDoneEffect_Optimistic(r) ==
  /\ Continue(r, fetchBooks("delete", r.ctx))
  /\ books' = SelectSeq(books, LAMBDA b : b._id # r.ctx)
  /\ UNCHANGED <<isModalOpen, isLoading, error, editingBook, formData, failedImages>>

\* response.ok: await fetchBooks()
DeleteDoneEffect(r) ==
  /\ Continue(r, fetchBooks("delete", r.ctx))
  /\ UNCHANGED screen

DeleteDone(r) ==
  /\ Answered(r, "delete", {"DELETE"}, "ok")
  /\ DeleteDoneEffect(r)
  /\ UNCHANGED <<mounted, backend, editSession>>

\* A catch block that drops the book from the list as if the delete had worked.
DeleteFailedEffect_Optimistic(r) ==
  /\ error' = DeleteError
  /\ books' = SelectSeq(books, LAMBDA b : b._id # r.ctx)
  /\ Finish(r)
  /\ UNCHANGED <<isModalOpen, isLoading, editingBook, formData, failedImages>>

\* catch { setError('Failed to delete book') }
DeleteFailedEffect(r) ==
  /\ error' = DeleteError
  /\ Finish(r)
  /\ UNCHANGED <<books, isModalOpen, isLoading, editingBook, formData, failedImages>>

DeleteFailed(r) ==
  /\ Answered(r, "delete", {"DELETE"}, "fail")
  /\ DeleteFailedEffect(r)
  /\ UNCHANGED <<mounted, backend, editSession>>

\* A reload that closes and resets a form whose book is no longer in the list.
DeleteReloaded_SyncsForm(r) ==
  /\ Answered(r, "delete", {"GET"}, "ok")
  /\ books' = r.data
  /\ IF editingBook # NoBook /\ editingBook._id \notin BookIds(r.data)
       THEN /\ isModalOpen' = FALSE
            /\ formData' = EmptyForm
            /\ editingBook' = NoBook
       ELSE UNCHANGED <<isModalOpen, formData, editingBook>>
  /\ Finish(r)
  /\ UNCHANGED <<isLoading, error, failedImages, mounted, backend, editSession>>

\* A fetchBooks that adds the returned books to the list instead of replacing it.
DeleteReloaded_Merges(r) ==
  /\ Answered(r, "delete", {"GET"}, "ok")
  /\ books' = books \o SelectSeq(r.data, LAMBDA b : b._id \notin BookIds(books))
  /\ Finish(r)
  /\ UNCHANGED <<isModalOpen, isLoading, error, editingBook, formData, failedImages,
                 mounted, backend, editSession>>

\* fetchBooks: setBooks(data)
DeleteReloaded(r) ==
  /\ Answered(r, "delete", {"GET"}, "ok")
  /\ books' = r.data
  /\ Finish(r)
  /\ UNCHANGED <<isModalOpen, isLoading, error, editingBook, formData, failedImages,
                 mounted, backend, editSession>>

\* fetchBooks: catch, setError('Failed to load books')
DeleteReloadFailed(r) ==
  /\ Answered(r, "delete", {"GET"}, "fail")
  /\ error' = LoadError
  /\ Finish(r)
  /\ UNCHANGED <<books, isModalOpen, isLoading, editingBook, formData, failedImages,
                 mounted, backend, editSession>>

(***************************************************************************)
(* handleImageError: the <img> of a card reported a load failure.  The     *)
(* card renders an <img> only while its id is not in failedImages.         *)
(***************************************************************************)
\* An image error that is also reported as a textual error.
handleImageError_Reports(bookId) ==
  /\ mounted
  /\ bookId \notin failedImages
  /\ \E i \in DOMAIN books : books[i]._id = bookId /\ books[i].cover \in BrokenCovers
  /\ failedImages' = failedImages \cup {bookId}
  /\ error' = LoadError
  /\ UNCHANGED <<books, isModalOpen, isLoading, editingBook, formData,
                 mounted, net, nreq, backend, editSession>>

ImageShown(bookId) ==
  /\ bookId \notin failedImages
  /\ \E i \in DOMAIN books : books[i]._id = bookId /\ books[i].cover \in BrokenCovers

handleImageError(bookId) ==
  /\ mounted
  /\ ImageShown(bookId)
  /\ failedImages' = failedImages \cup {bookId}
  /\ UNCHANGED <<books, isModalOpen, isLoading, error, editingBook, formData,
                 mounted, net, nreq, backend, editSession>>

(***************************************************************************)
(* The backend: GET, POST, PUT and DELETE on /api/books.                   *)
(***************************************************************************)
Respond(r, status, data) ==
  net' = (net \ {r}) \cup {[r EXCEPT !.status = status, !.data = data]}

Pending(r) == r \in net /\ r.status = "sent"

\* Any request may fail: unreachable network, an error status, an unreadable body.
ServerFail(r) ==
  /\ Pending(r)
  /\ Respond(r, "fail", <<>>)
  /\ UNCHANGED <<screen, mounted, nreq, backend, editSession>>

\* GET /api/books -> the collection
ServerGet(r) ==
  /\ Pending(r)
  /\ r.method = "GET"
  /\ Respond(r, "ok", server)
  /\ UNCHANGED <<screen, mounted, nreq, backend, editSession>>

\* The path under which the backend serves the cover of a created book.
NewCover == "/covers/new.jpg"

\* POST /api/books -> a new book with an identifier the backend chooses
ServerPost(r) ==
  /\ Pending(r)
  /\ r.method = "POST"
  /\ server' = Append(server, [_id |-> nextId, title |-> r.body.title,
                                author |-> r.body.author,
                                description |-> r.body.description,
                                cover |-> NewCover])
  /\ nextId' = nextId + 1
  /\ Respond(r, "ok", <<>>)
  /\ UNCHANGED <<screen, mounted, nreq, editSession>>

\* PUT /api/books/{id} -> the book with that identifier, updated
ServerPut(r) ==
  /\ Pending(r)
  /\ r.method = "PUT"
  /\ r.id \in BookIds(server)
  /\ server' = [i \in DOMAIN server |->
                  IF server[i]._id = r.id
                    THEN [_id |-> r.id, title |-> r.body.title,
                          author |-> r.body.author,
                          description |-> r.body.description,
                          cover |-> server[i].cover]
                    ELSE server[i]]
  /\ Respond(r, "ok", <<>>)
  /\ UNCHANGED <<screen, mounted, nreq, nextId, editSession>>

\* DELETE /api/books/{id} -> the book with that identifier is gone
ServerDelete(r) ==
  /\ Pending(r)
  /\ r.method = "DELETE"
  /\ server' = SelectSeq(server, LAMBDA b : b._id # r.id)
  /\ Respond(r, "ok", <<>>)
  /\ UNCHANGED <<screen, mounted, nreq, nextId, editSession>>

(***************************************************************************)
(* The specification.                                                      *)
(***************************************************************************)
UserStep ==
  \/ AddNewBook
  \/ \E name \in FieldNames, value \in InputValues : handleInputChange(name, value)
  \/ \E file \in Files \cup {NoFile} : handleFileChange(file)
  \/ Cancel
  \/ DialogDismiss
  \/ \E book \in Range(books) : handleEdit(book)
  \/ handleSubmit
  \/ \E bookId \in BookIds(books) : handleDeleteDeclined(bookId)
  \/ \E bookId \in BookIds(books) : handleDeleteConfirmed(bookId)

ResponseStep ==
  \E r \in net :
    \/ MountLoaded(r)
    \/ MountLoadFailed(r)
    \/ SubmitSaved(r)
    \/ SubmitFailed(r)
    \/ SubmitReloaded(r)
    \/ SubmitReloadFailed(r)
    \/ DeleteDone(r)
    \/ DeleteFailed(r)
    \/ DeleteReloaded(r)
    \/ DeleteReloadFailed(r)

ServerStep ==
  \E r \in net :
    \/ ServerFail(r)
    \/ ServerGet(r)
    \/ ServerPost(r)
    \/ ServerPut(r)
    \/ ServerDelete(r)

ImageStep == \E bookId \in BookIds(books) : handleImageError(bookId)

Next == Mount \/ UserStep \/ ResponseStep \/ ServerStep \/ ImageStep

Spec == Init /\ [][Next]_vars

\* Every request is answered and every answer is delivered to the handler awaiting it.
LiveSpec == Spec /\ WF_vars(ServerStep) /\ WF_vars(ResponseStep)

\* The sessions in which every read of the collection succeeds: the backend answers
\* each GET with the collection, and only creates, updates and deletes may fail.
ReadsSucceedServerStep ==
  \E r \in net :
    \/ (r.method # "GET" /\ ServerFail(r))
    \/ ServerGet(r)
    \/ ServerPost(r)
    \/ ServerPut(r)
    \/ ServerDelete(r)

ReadsSucceedResponseStep ==
  \E r \in net :
    \/ MountLoaded(r)
    \/ SubmitSaved(r)
    \/ SubmitFailed(r)
    \/ SubmitReloaded(r)
    \/ DeleteDone(r)
    \/ DeleteFailed(r)
    \/ DeleteReloaded(r)

ReadsSucceedNext ==
  Mount \/ UserStep \/ ReadsSucceedResponseStep \/ ReadsSucceedServerStep \/ ImageStep

ReadsSucceedSpec == Init /\ [][ReadsSucceedNext]_vars

(***************************************************************************)
(* Observing a step.                                                       *)
(***************************************************************************)
\* The requests this step issues.
Issued == net' \ net

\* This step delivers the answer `r` to the handler that awaits it.
Delivered(r, origin, methods, status) ==
  /\ Answered(r, origin, methods, status)
  /\ r \notin net'

SubmitInFlight == {r \in net : r.origin = "submit"}

\* The handlers that issue requests.
Origins == {"mount", "submit", "delete"}

\* The form handleEdit(book) builds.
BookForm(book) ==
  [title |-> book.title, author |-> book.author, description |-> book.description,
   cover |-> NoFile]

\* This step delivers the answer `r` of a read of the collection to fetchBooks.
ReadDelivered(r, status) == \E o \in Origins : Delivered(r, o, {"GET"}, status)

(***************************************************************************)
(* Properties.                                                             *)
(***************************************************************************)

\* C1: startCreate() immediately followed by submit() issues a creation request
\* (POST), never an update; and when the save and its reload are done the modal is
\* closed and the form is the empty template with no edit target.
C1_CreateThenSubmitPosts ==
  [][/\ AddNewBook => (SubmitEnabled => SubmitRequest.method = "POST")'
     /\ \A r \in net :
          (Delivered(r, "submit", {"GET"}, "ok") \/ Delivered(r, "submit", {"GET"}, "fail"))
            => (~isModalOpen' /\ formData' = EmptyForm /\ editingBook' = NoBook)]_vars

\* C2: right after startCreate() the form is the empty template (no pending cover),
\* the edit target is none, the modal is open and the error message is none.
C2_StartCreateClears ==
  [][AddNewBook => /\ formData' = EmptyForm
                   /\ editingBook' = NoBook
                   /\ isModalOpen'
                   /\ error' = Null]_vars

\* C3: a submit issues exactly one request: PUT /api/books/{id of the edit target}
\* when an edit target is set, POST /api/books when it is none; so after
\* startEdit(b) and field edits only, the request is a PUT addressed to b.
C3_SubmitAddressesEditTarget ==
  [][handleSubmit =>
       /\ net \subseteq net'
       /\ Cardinality(Issued) = 1
       /\ \A r \in Issued :
            /\ r.status = "sent"
            /\ r.body = formData
            /\ IF editingBook # NoBook
                 THEN r.method = "PUT" /\ r.id = editingBook._id
                 ELSE r.method = "POST" /\ r.id = 0
            /\ editSession # NoBook => (r.method = "PUT" /\ r.id = editSession._id)]_vars

\* The second book was edited (a cover chosen) and submitted: its PUT is in flight.
C3_Witness ==
  \E r \in net : /\ r.origin = "submit"
                 /\ r.method = "PUT"
                 /\ r.id = Book2._id
                 /\ r.status = "sent"
                 /\ r.body.cover # NoFile

\* C4: at most one submit is in flight, and while one is, the in-flight flag is
\* true and submit is disabled, whatever the user did since.
C4_OneSubmitInFlight ==
  /\ Cardinality(SubmitInFlight) <= 1
  /\ SubmitInFlight # {} => (isLoading /\ ~SubmitEnabled)

\* A save is pending and the user has cancelled, reopened the dialog on the first
\* book and has a complete form in front of them.
C4_Witness ==
  /\ \E r \in SubmitInFlight : r.method = "POST" /\ r.status = "sent"
  /\ FormEnabled
  /\ RequiredFilled
  /\ editingBook = Book1

\* C5: whenever a read of the collection fails (at mount, after a save, after a
\* delete), once its operation has finished the error message is 'Failed to load
\* books' and the displayed list is as before.
C5_LoadFailureReported ==
  [][\A r \in net :
       (\/ Delivered(r, "mount", {"GET"}, "fail")
        \/ Delivered(r, "submit", {"GET"}, "fail")
        \/ Delivered(r, "delete", {"GET"}, "fail"))
         => (error' = LoadError /\ books' = books)]_vars

\* C6: when the create/update request fails, the error message becomes 'Failed to
\* save book', no reload is issued, and the modal flag, the form and the edit
\* target are as they were.
C6_SaveFailureKeepsForm ==
  [][\A r \in net :
       Delivered(r, "submit", {"POST", "PUT"}, "fail")
         => /\ error' = SaveError
            /\ net' = net \ {r}
            /\ nreq' = nreq
            /\ UNCHANGED <<isModalOpen, formData, editingBook>>]_vars

\* The update of the first book failed: the dialog is still open on it.
C6_Witness ==
  /\ error = SaveError
  /\ isModalOpen
  /\ editingBook = Book1
  /\ formData.cover # NoFile
  /\ SubmitInFlight = {}

\* C7: every submit clears the in-flight flag when it ends (save failed, reload
\* succeeded, reload failed), and the flag is true only while a submit is in
\* progress.
C7_LoadingCleared ==
  /\ [](isLoading => SubmitInFlight # {})
  /\ isLoading ~> ~isLoading

\* A save failed and the flag is clear again.
C7_Witness ==
  /\ ~isLoading
  /\ error = SaveError
  /\ SubmitInFlight = {}

\* C8: declining the confirmation issues no request and leaves the list and the
\* rest of the screen state unchanged.
C8_DeclinedDeleteChangesNothing ==
  [][\A bookId \in BookIds(books) :
       handleDeleteDeclined(bookId) => UNCHANGED <<screen, net, nreq, backend>>]_vars

\* The prompt can be declined on a screen that shows books, an error and a failed
\* cover, with a request in flight: the step leaves that state as it is.
C8_Witness ==
  /\ PageEnabled
  /\ books # <<>>
  /\ error # Null
  /\ failedImages # {}
  /\ formData # EmptyForm
  /\ net # {}

\* C9: a confirmed delete of X issues DELETE /api/books/{X}; when it succeeds a
\* reload is issued; and when that reload succeeds X is not in the displayed list.
C9_ConfirmedDeleteRemoves ==
  [][/\ \A bookId \in BookIds(books) :
          handleDeleteConfirmed(bookId)
            => /\ Cardinality(Issued) = 1
               /\ \A r \in Issued : r.method = "DELETE" /\ r.id = bookId
     /\ \A r \in net :
          Delivered(r, "delete", {"DELETE"}, "ok")
            => /\ Cardinality(Issued) = 1
               /\ \A g \in Issued : g.method = "GET" /\ g.origin = "delete" /\ g.ctx = r.id
     /\ \A r \in net :
          Delivered(r, "delete", {"GET"}, "ok") => r.ctx \notin BookIds(books')]_vars

\* The first book was deleted and the reload came back: only the second is shown.
C9_Witness ==
  /\ books = <<Book2>>
  /\ server = <<Book2>>
  /\ net = {}
  /\ nreq = 3

\* C10: when the delete request fails, no reload is issued, the displayed list is
\* not changed and the error message is 'Failed to delete book'.
C10_DeleteFailureKeepsList ==
  [][\A r \in net :
       Delivered(r, "delete", {"DELETE"}, "fail")
         => /\ net' = net \ {r}
            /\ nreq' = nreq
            /\ books' = books
            /\ error' = DeleteError]_vars

\* A delete failed: both books are still shown, under the error message.
C10_Witness ==
  /\ error = DeleteError
  /\ books = InitialCollection
  /\ net = {}

\* C11: when a read of the collection succeeds, the displayed list is exactly the
\* returned collection, same books in the same order, whatever was shown before.
C11_LoadReplacesList ==
  [][\A r \in net : ReadDelivered(r, "ok") => books' = r.data]_vars

\* A book was created and the reload came back: the three books of the backend
\* are shown in the backend's order.
C11_Witness ==
  /\ Len(books) = 3
  /\ books = server
  /\ books[3]._id = 3
  /\ net = {}

\* C12: the set of identifiers whose cover failed only grows, and a book whose
\* identifier is in it is shown with the fallback view, not with the image.
C12_FailedImagesGrow ==
  [][/\ failedImages \subseteq failedImages'
     /\ \A bookId \in failedImages : ~ImageShown(bookId)']_vars

\* The cover of the first book failed; since then a book was created and the list
\* reloaded: the first book is still marked.
C12_Witness ==
  /\ failedImages = {Book1._id}
  /\ Book1._id \in BookIds(books)
  /\ Len(books) = 3
  /\ ~isModalOpen

\* C13: for each card, at most one delete started from its Delete button is in
\* progress (its DELETE or its reload pending) at any time.
C13_OneDeletePerCard ==
  \A r1, r2 \in net :
    (r1.origin = "delete" /\ r2.origin = "delete" /\ r1.ctx = r2.ctx) => r1 = r2

\* C14: the displayed list changes only in a step in which a read of the
\* collection succeeds.
C14_ListChangesOnlyOnLoad ==
  [][books' # books => \E r \in net : ReadDelivered(r, "ok")]_vars

\* The backend has deleted a book and answered; the reload is still out and the
\* book is still on the screen.
C14_Witness ==
  \E r \in net : /\ r.origin = "delete"
                 /\ r.method = "GET"
                 /\ r.ctx \in BookIds(books)
                 /\ r.ctx \notin BookIds(server)

\* C15: right after startEdit(b) the form holds b's title, author and description
\* and no pending cover, the edit target is b and the modal is open.
C15_StartEditLoadsBook ==
  [][\A b \in Range(books) :
       handleEdit(b) => /\ formData' = [title |-> b.title, author |-> b.author,
                                         description |-> b.description, cover |-> NoFile]
                        /\ editingBook' = b
                        /\ isModalOpen']_vars

\* The first book's form was just opened, while an earlier save (made with a cover
\* chosen) is still in flight.
C15_Witness ==
  /\ editSession = Book1
  /\ editingBook = Book1
  /\ isModalOpen
  /\ formData = [title |-> "Dune", author |-> "x", description |-> "x", cover |-> NoFile]
  /\ \E r \in SubmitInFlight : r.body.cover # NoFile

\* C16: the completion of a list read issued at mount or after a delete, success
\* or failure, leaves the form, the pending cover, the edit target, the modal flag,
\* the in-flight flag and the failed-cover set unchanged.
C16_LoadKeepsForm ==
  [][\A r \in net :
       (\E st \in {"ok", "fail"} :
          Delivered(r, "mount", {"GET"}, st) \/ Delivered(r, "delete", {"GET"}, st))
         => UNCHANGED <<formData, editingBook, isModalOpen, isLoading, failedImages>>]_vars

\* The form is open on a book that a reload has taken off the list.
C16_Witness ==
  /\ isModalOpen
  /\ editingBook # NoBook
  /\ editingBook._id \notin BookIds(books)
  /\ formData.title = editingBook.title
  /\ net = {}

\* C17: an image load failure adds the book's identifier to the failed-cover set
\* and changes nothing else; it issues no request.
C17_ImageErrorIsSilent ==
  [][\A bookId \in BookIds(books) :
       handleImageError(bookId)
         => /\ failedImages' = failedImages \cup {bookId}
            /\ UNCHANGED <<books, isModalOpen, isLoading, error, editingBook, formData,
                           net, nreq>>]_vars

\* A cover failed while a save was in flight: no error message is shown.
C17_Witness ==
  /\ failedImages # {}
  /\ error = Null
  /\ isLoading
  /\ isModalOpen

\* C18: in a session in which every read of the collection succeeds, whenever no
\* request is in flight the displayed list is the backend's collection.
C18_DisplayedIsBackend ==
  (mounted /\ net = {}) => books = server

\* C19: a form opened with startEdit(c) while a save was in flight (after Cancel)
\* is untouched when that save and its reload succeed: the modal stays open, the
\* edit target stays c and the form keeps c's fields.
C19_SaveCompletionKeepsNewForm ==
  [][\A r \in net :
       (/\ Delivered(r, "submit", {"GET"}, "ok")
        /\ editSession # NoBook
        /\ isModalOpen
        /\ editingBook = editSession
        /\ formData = BookForm(editSession))
         => /\ isModalOpen'
            /\ editingBook' = editSession
            /\ formData' = BookForm(editSession)]_vars

====
